---------------------------- MODULE Spec2Model ----------------------------
(***************************************************************************)
(* Model of the anchor-version-detector pipeline (src/src/main.rs):        *)
(* detect_versions_recursive = probe of the root directory, depth-first    *)
(* walk of the subdirectories with update_from merging, and table-driven   *)
(* inference of the versions that are still missing.                       *)
(*                                                                         *)
(* The file system is the input.  A manifest file is described by whether  *)
(* it exists, whether fs::read_to_string succeeds on it, the byte length   *)
(* of its content and what the toml crate makes of the content (the TOML   *)
(* values found at the keys the program looks at).  Version strings are    *)
(* real strings; cleaning, trimming and prefix matching are computed on    *)
(* their characters.                                                       *)
(***************************************************************************)
EXTENDS Integers, Sequences, FiniteSets, TLC

VARIABLES
    tree,       \* the project directory tree: tree[1] is the root
    pc,         \* position in detect_versions_recursive / search_subdirectories
    stack,      \* active search_subdirectories calls, innermost last
    versions,   \* the running ProjectVersions of detect_versions_recursive
    returned,   \* the Result<ProjectVersions> handed to main, once there is one
    probed,     \* directories detect_versions has been called on, in call order
    reads       \* files fs::read_to_string has been called on

vars == <<tree, pc, stack, versions, returned, probed, reads>>

----------------------------------------------------------------------------
(* Option<String>: None is the empty tuple, Some(s) the one-element tuple. *)

None == <<>>
Some(s) == <<s>>
IsNone(o) == o = <<>>
IsSome(o) == o # <<>>
Unwrap(o) == o[1]

----------------------------------------------------------------------------
(* Program constants.                                                      *)

RUST_TOOLCHAIN_FILES == <<"rust-toolchain", "rust-toolchain.toml">>

SKIP_DIRECTORIES ==
    {"node_modules", "target", ".git", "dist", "build", ".idea", ".vscode", "coverage"}

MAX_RUST_TOOLCHAIN_FILE_SIZE == 10000
MAX_TOML_FILE_SIZE == 100000
LATEST_COMPATIBILITY_INDEX == 1     \* index 0 of the Rust slice

\* (Solana, Anchor, Rust), newest first
COMPATIBILITY_RULES ==
    << <<"2.1.0",   "0.31.0", "1.84.1">>,
       <<"1.18.17", "0.30.1", "1.76.0">>,
       <<"1.18.8",  "0.30.0", "1.76.0">>,
       <<"1.17.0",  "0.29.0", "1.69.0">>,
       <<"1.16.0",  "0.28.0", "1.68.0">>,
       <<"1.15.0",  "0.27.0", "1.67.0">>,
       <<"1.14.0",  "0.26.0", "1.66.0">> >>

----------------------------------------------------------------------------
(* String functions of the standard library, on the characters.            *)

Digits == {"0", "1", "2", "3", "4", "5", "6", "7", "8", "9"}
Whitespace == {" ", "\n", "\t", "\r"}

CharAt(s, i) == SubSeq(s, i, i)

\* str::starts_with
StartsWith(s, p) == Len(p) <= Len(s) /\ SubSeq(s, 1, Len(p)) = p

\* str::trim_start_matches(char): removes EVERY leading repetition of c
RECURSIVE TrimStartMatches(_, _)
TrimStartMatches(s, c) ==
    IF Len(s) > 0 /\ CharAt(s, 1) = c
    THEN TrimStartMatches(SubSeq(s, 2, Len(s)), c)
    ELSE s

RECURSIVE TrimStart(_)
TrimStart(s) ==
    IF Len(s) > 0 /\ CharAt(s, 1) \in Whitespace
    THEN TrimStart(SubSeq(s, 2, Len(s)))
    ELSE s

RECURSIVE TrimEnd(_)
TrimEnd(s) ==
    IF Len(s) > 0 /\ CharAt(s, Len(s)) \in Whitespace
    THEN TrimEnd(SubSeq(s, 1, Len(s) - 1))
    ELSE s

\* str::trim
Trim(s) == TrimEnd(TrimStart(s))

\* version.chars().any(|c| c.is_numeric())
HasNumeric(s) == \E i \in 1..Len(s) : CharAt(s, i) \in Digits

\* one leading c removed, if there is one
StripOne(s, c) ==
    IF Len(s) > 0 /\ CharAt(s, 1) = c THEN SubSeq(s, 2, Len(s)) ELSE s

\* a cleaning that removes one character where the code removes a run
clean_version_once(version) ==
    StripOne(StripOne(StripOne(StripOne(version, "^"), "~"), "="), "v")

clean_version(version) ==
    TrimStartMatches(
        TrimStartMatches(
            TrimStartMatches(
                TrimStartMatches(version, "^"),
                "~"),
            "="),
        "v")

----------------------------------------------------------------------------
(* ProjectVersions                                                         *)

EmptyVersions ==
    [rust_version |-> None, solana_version |-> None,
     anchor_version |-> None, source |-> None]

needs_more_info(self) ==
    \/ IsNone(self.rust_version)
    \/ IsNone(self.solana_version)
    \/ IsNone(self.anchor_version)

\* update_from without the wildcard test
update_from_wildcard(self, other) ==
    LET s1 == IF IsNone(self.rust_version) /\ IsSome(other.rust_version)
              THEN [self EXCEPT !.rust_version = other.rust_version,
                                !.source = other.source]
              ELSE self
        s2 == IF IsNone(s1.solana_version) /\ IsSome(other.solana_version)
              THEN [s1 EXCEPT !.solana_version = other.solana_version]
              ELSE s1
    IN  IF IsNone(s2.anchor_version) /\ IsSome(other.anchor_version)
        THEN [s2 EXCEPT !.anchor_version = other.anchor_version]
        ELSE s2

\* update_from without its is_none() test on anchor_version
update_from_overwriting(self, other) ==
    LET s1 == IF IsNone(self.rust_version) /\ IsSome(other.rust_version)
              THEN [self EXCEPT !.rust_version = other.rust_version,
                                !.source = other.source]
              ELSE self
        s2 == IF /\ IsNone(s1.solana_version)
                 /\ IsSome(other.solana_version)
                 /\ Unwrap(other.solana_version) # "*"
              THEN [s1 EXCEPT !.solana_version = other.solana_version]
              ELSE s1
    IN  IF IsSome(other.anchor_version)
        THEN [s2 EXCEPT !.anchor_version = other.anchor_version]
        ELSE s2

update_from(self, other) ==
    LET s1 == IF IsNone(self.rust_version) /\ IsSome(other.rust_version)
              THEN [self EXCEPT !.rust_version = other.rust_version,
                                !.source = other.source]
              ELSE self
        s2 == IF /\ IsNone(s1.solana_version)
                 /\ IsSome(other.solana_version)
                 /\ (IsNone(other.solana_version) \/ Unwrap(other.solana_version) # "*")
              THEN [s1 EXCEPT !.solana_version = other.solana_version]
              ELSE s1
        s3 == IF IsNone(s2.anchor_version) /\ IsSome(other.anchor_version)
              THEN [s2 EXCEPT !.anchor_version = other.anchor_version]
              ELSE s2
    IN s3

\* the deny-list with its last name lost
should_skip_directory_short(dir_name) == dir_name \in SKIP_DIRECTORIES \ {"coverage"}

should_skip_directory(dir_name) == dir_name \in SKIP_DIRECTORIES


----------------------------------------------------------------------------
(* Result<T, anyhow::Error>.  The error is named by its kind.              *)

Ok(v) == [ok |-> TRUE, v |-> v, err |-> ""]
Err(e) == [ok |-> FALSE, v |-> EmptyVersions, err |-> e]

IoError == "io_error"               \* "Failed to read ..."
TooLarge == "too_large"             \* "File ... is too large"
NotSolanaProject == "not_a_solana_project"

----------------------------------------------------------------------------
(* TOML values, as toml::Value shows them at the keys the program reads.   *)

TAbsent == [t |-> "absent", s |-> ""]
TString(s) == [t |-> "string", s |-> s]
TOther == [t |-> "other", s |-> ""]         \* integer, boolean, array, ...

\* a dependency entry: a string, a table (with its "version" value) or else
DAbsent == [t |-> "absent", s |-> "", version |-> TAbsent]
DString(s) == [t |-> "string", s |-> s, version |-> TAbsent]
DTable(ver) == [t |-> "table", s |-> "", version |-> ver]
DOther == [t |-> "other", s |-> "", version |-> TAbsent]

\* a dependencies table: kind is "absent", "table" or "other" (not a table)
Deps(sp, al, as) ==
    [kind |-> "table", solana_program |-> sp, anchor_lang |-> al, anchor_spl |-> as]
NoDeps ==
    [kind |-> "absent", solana_program |-> DAbsent, anchor_lang |-> DAbsent,
     anchor_spl |-> DAbsent]
BadDeps == [NoDeps EXCEPT !.kind = "other"]

----------------------------------------------------------------------------
(* Files.  doc is what the toml crate sees in the content.                 *)

\* rust-toolchain[.toml]: form "toml" when the content deserialises as
\* RustToolchain (value = toolchain.channel), else "text" (value = content)
ToolchainToml(channel) == [form |-> "toml", value |-> channel]
ToolchainText(content) == [form |-> "text", value |-> content]

\* Anchor.toml: valid = the content is TOML at all; toolchain is "absent",
\* "table" or "other"; the two values are those under [toolchain]
AnchorDoc(solana, anchor) ==
    [valid |-> TRUE, toolchain |-> "table",
     solana_version |-> solana, anchor_version |-> anchor]
AnchorNoToolchain == [AnchorDoc(TAbsent, TAbsent) EXCEPT !.toolchain = "absent"]
AnchorBadToolchain == [AnchorDoc(TAbsent, TAbsent) EXCEPT !.toolchain = "other"]
AnchorNotToml == [AnchorDoc(TAbsent, TAbsent) EXCEPT !.valid = FALSE]

\* Cargo.toml: dependencies and workspace.dependencies
CargoDoc(deps, wkind, wdeps) ==
    [valid |-> TRUE, dependencies |-> deps, workspace |-> wkind,
     workspace_dependencies |-> wdeps]
CargoNotToml == [CargoDoc(NoDeps, "absent", NoDeps) EXCEPT !.valid = FALSE]

File(readable, size, doc) ==
    [exists |-> TRUE, readable |-> readable, size |-> size, doc |-> doc]
Missing(doc) == [exists |-> FALSE, readable |-> TRUE, size |-> 0, doc |-> doc]

NoToolchainFile == Missing(ToolchainText(""))
NoAnchorToml == Missing(AnchorNotToml)
NoCargoToml == Missing(CargoNotToml)

----------------------------------------------------------------------------
(* Manifest readers.                                                       *)

parse_rust_toolchain(doc) ==
    IF doc.form = "toml"
    THEN [ok |-> TRUE, version |-> doc.value]
    ELSE LET version == Trim(doc.value)
         IN  IF HasNumeric(version)
             THEN [ok |-> TRUE, version |-> version]
             ELSE [ok |-> FALSE, version |-> ""]

\* toml::from_str::<AnchorToml>: Option<ToolchainConfig> of Option<String>s
AnchorTomlParses(doc) ==
    /\ doc.valid
    /\ doc.toolchain \in {"absent", "table"}
    /\ doc.toolchain = "table" =>
          /\ doc.solana_version.t \in {"absent", "string"}
          /\ doc.anchor_version.t \in {"absent", "string"}

\* Option<String> field of a struct that deserialised
StringField(val) == IF val.t = "string" THEN Some(val.s) ELSE None

\* toml::Value::get(key).and_then(|v| v.as_str())
AsStr(val) == IF val.t = "string" THEN Some(val.s) ELSE None

\* serde(untagged) DependencySpec: Simple(String) | Detailed { version }
DependencySpecParses(dv) ==
    \/ dv.t \in {"absent", "string"}
    \/ dv.t = "table" /\ dv.version.t \in {"absent", "string"}

DependenciesParse(tbl) ==
    \/ tbl.kind = "absent"
    \/ /\ tbl.kind = "table"
       /\ DependencySpecParses(tbl.solana_program)
       /\ DependencySpecParses(tbl.anchor_lang)
       /\ DependencySpecParses(tbl.anchor_spl)

\* toml::from_str::<CargoToml>
CargoTomlParses(doc) ==
    /\ doc.valid
    /\ DependenciesParse(doc.dependencies)
    /\ doc.workspace \in {"absent", "table"}
    /\ doc.workspace = "table" => DependenciesParse(doc.workspace_dependencies)

\* spec is a present entry that deserialised as DependencySpec
get_version_from_spec(spec) ==
    IF spec.t = "string" THEN Some(spec.s) ELSE StringField(spec.version)

update_versions_from_dependencies(vs, deps) ==
    LET v1 == IF IsNone(vs.solana_version) /\ deps.solana_program.t # "absent"
              THEN [vs EXCEPT !.solana_version =
                                  get_version_from_spec(deps.solana_program)]
              ELSE vs
        v2 == IF IsNone(v1.anchor_version) /\ deps.anchor_lang.t # "absent"
              THEN [v1 EXCEPT !.anchor_version =
                                  get_version_from_spec(deps.anchor_lang)]
              ELSE v1
        v3 == IF IsNone(v2.anchor_version) /\ deps.anchor_spl.t # "absent"
              THEN [v2 EXCEPT !.anchor_version =
                                  get_version_from_spec(deps.anchor_spl)]
              ELSE v2
    IN v3

extract_version_from_toml_value(value) ==
    CASE value.t = "string" -> Some(value.s)
      [] value.t = "table" -> AsStr(value.version)
      [] OTHER -> None

update_versions_from_toml_table(vs, deps) ==
    LET v1 == IF IsNone(vs.solana_version)
              THEN [vs EXCEPT !.solana_version =
                                  extract_version_from_toml_value(deps.solana_program)]
              ELSE vs
        v2 == IF IsNone(v1.anchor_version)
              THEN [v1 EXCEPT !.anchor_version =
                                  extract_version_from_toml_value(deps.anchor_lang)]
              ELSE v1
        v3 == IF IsNone(v2.anchor_version)
              THEN [v2 EXCEPT !.anchor_version =
                                  extract_version_from_toml_value(deps.anchor_spl)]
              ELSE v2
    IN v3

----------------------------------------------------------------------------
(* detect_versions: the probe of one directory.  dir is the directory      *)
(* record, path its place in the tree.  Each stage returns early with the  *)
(* error of the file it could not read.                                    *)

\* the first of RUST_TOOLCHAIN_FILES that exists, 0 when neither does; the
\* loop breaks after it whether or not it parsed
FirstToolchainFile(dir) ==
    LET existing == {i \in 1..Len(RUST_TOOLCHAIN_FILES) : dir.toolchain[i].exists}
    IN  IF existing = {} THEN 0
        ELSE CHOOSE i \in existing : \A j \in existing : i <= j

\* the toolchain-pin reader with its format error sent up by `?`
ToolchainStage_strict(path, dir) ==
    LET i == FirstToolchainFile(dir)
    IN  IF i = 0 THEN Ok(EmptyVersions)
        ELSE LET f == dir.toolchain[i]
                 parsed == parse_rust_toolchain(f.doc)
             IN  IF ~f.readable THEN Err(IoError)
                 ELSE IF f.size > MAX_RUST_TOOLCHAIN_FILE_SIZE THEN Err(TooLarge)
                 ELSE IF parsed.ok
                 THEN Ok([EmptyVersions EXCEPT
                             !.rust_version = Some(parsed.version),
                             !.source = Some(<<path, RUST_TOOLCHAIN_FILES[i]>>)])
                 ELSE Err("invalid_format")

ToolchainStage(path, dir) ==
    LET i == FirstToolchainFile(dir)
    IN  IF i = 0 THEN Ok(EmptyVersions)
        ELSE LET f == dir.toolchain[i]
                 parsed == parse_rust_toolchain(f.doc)
             IN  IF ~f.readable THEN Err(IoError)
                 ELSE IF f.size > MAX_RUST_TOOLCHAIN_FILE_SIZE THEN Err(TooLarge)
                 ELSE IF parsed.ok
                 THEN Ok([EmptyVersions EXCEPT
                             !.rust_version = Some(parsed.version),
                             !.source = Some(<<path, RUST_TOOLCHAIN_FILES[i]>>)])
                 ELSE Ok(EmptyVersions)

\* Ok(config) arm: values of the structured parse overwrite
AnchorStructured(vs, doc) ==
    IF doc.toolchain = "table"
    THEN LET v1 == IF IsSome(StringField(doc.solana_version))
                   THEN [vs EXCEPT !.solana_version = StringField(doc.solana_version)]
                   ELSE vs
         IN  IF IsSome(StringField(doc.anchor_version))
             THEN [v1 EXCEPT !.anchor_version = StringField(doc.anchor_version)]
             ELSE v1
    ELSE vs

\* Err(_) arm: generic toml::Value, filling only what is still None
AnchorGeneric(vs, doc) ==
    IF doc.valid /\ doc.toolchain = "table"
    THEN LET v1 == IF IsNone(vs.solana_version) /\ IsSome(AsStr(doc.solana_version))
                   THEN [vs EXCEPT !.solana_version = AsStr(doc.solana_version)]
                   ELSE vs
         IN  IF IsNone(v1.anchor_version) /\ IsSome(AsStr(doc.anchor_version))
             THEN [v1 EXCEPT !.anchor_version = AsStr(doc.anchor_version)]
             ELSE v1
    ELSE vs

AnchorStage(vs, dir) ==
    LET f == dir.anchor_toml
    IN  IF ~f.exists THEN Ok(vs)
        ELSE IF ~f.readable THEN Err(IoError)
        ELSE IF f.size > MAX_TOML_FILE_SIZE THEN Err(TooLarge)
        ELSE IF AnchorTomlParses(f.doc) THEN Ok(AnchorStructured(vs, f.doc))
        ELSE Ok(AnchorGeneric(vs, f.doc))

CargoStructured(vs, doc) ==
    LET v1 == IF doc.dependencies.kind = "table"
              THEN update_versions_from_dependencies(vs, doc.dependencies)
              ELSE vs
    IN  IF doc.workspace = "table" /\ doc.workspace_dependencies.kind = "table"
        THEN update_versions_from_dependencies(v1, doc.workspace_dependencies)
        ELSE v1

CargoGeneric(vs, doc) ==
    IF doc.valid
    THEN LET v1 == IF doc.dependencies.kind = "table"
                   THEN update_versions_from_toml_table(vs, doc.dependencies)
                   ELSE vs
         IN  IF doc.workspace = "table" /\ doc.workspace_dependencies.kind = "table"
             THEN update_versions_from_toml_table(v1, doc.workspace_dependencies)
             ELSE v1
    ELSE vs

\* Cargo.toml read without the size check
CargoStage_unbounded(vs, dir) ==
    LET f == dir.cargo_toml
    IN  IF ~f.exists THEN Ok(vs)
        ELSE IF ~f.readable THEN Err(IoError)
        ELSE IF CargoTomlParses(f.doc) THEN Ok(CargoStructured(vs, f.doc))
        ELSE Ok(CargoGeneric(vs, f.doc))

CargoStage(vs, dir) ==
    LET f == dir.cargo_toml
    IN  IF ~f.exists THEN Ok(vs)
        ELSE IF ~f.readable THEN Err(IoError)
        ELSE IF f.size > MAX_TOML_FILE_SIZE THEN Err(TooLarge)
        ELSE IF CargoTomlParses(f.doc) THEN Ok(CargoStructured(vs, f.doc))
        ELSE Ok(CargoGeneric(vs, f.doc))

detect_versions(path, dir) ==
    LET r1 == ToolchainStage(path, dir)
        r2 == IF r1.ok THEN AnchorStage(r1.v, dir) ELSE r1
        r3 == IF r2.ok THEN CargoStage(r2.v, dir) ELSE r2
    IN  r3

\* the files detect_versions(path) calls fs::read_to_string on
FilesRead(path, dir) ==
    LET i == FirstToolchainFile(dir)
        r1 == ToolchainStage(path, dir)
        r2 == IF r1.ok THEN AnchorStage(r1.v, dir) ELSE r1
    IN  {<<path, RUST_TOOLCHAIN_FILES[j]>> : j \in {i} \ {0}}
        \cup (IF r1.ok /\ dir.anchor_toml.exists THEN {<<path, "Anchor.toml">>} ELSE {})
        \cup (IF r2.ok /\ dir.cargo_toml.exists THEN {<<path, "Cargo.toml">>} ELSE {})

----------------------------------------------------------------------------
(* Inference.                                                              *)

\* a toolchain pin taken for a project indicator too
is_solana_project_any(vs) ==
    IsSome(vs.rust_version) \/ IsSome(vs.solana_version) \/ IsSome(vs.anchor_version)

is_solana_project(vs) == IsSome(vs.solana_version) \/ IsSome(vs.anchor_version)

\* for &(..) in COMPATIBILITY_RULES { if ver.starts_with(key) { ..; break } }:
\* the row the loop stops at, scanning from row i on; 0 when it runs out
RECURSIVE FirstRule(_, _, _)
FirstRule(ver, column, i) ==
    IF i > Len(COMPATIBILITY_RULES) THEN 0
    ELSE IF StartsWith(ver, COMPATIBILITY_RULES[i][column]) THEN i
    ELSE FirstRule(ver, column, i + 1)

\* the matched row written over the fields that were detected
MatchRules_overwriting(vs) ==
    IF IsSome(vs.solana_version)
    THEN LET i == FirstRule(clean_version(Unwrap(vs.solana_version)), 1, 1)
         IN  IF i = 0 THEN vs
             ELSE [vs EXCEPT !.anchor_version = Some(COMPATIBILITY_RULES[i][2]),
                             !.rust_version = Some(COMPATIBILITY_RULES[i][3])]
    ELSE IF IsSome(vs.anchor_version)
    THEN LET i == FirstRule(clean_version(Unwrap(vs.anchor_version)), 2, 1)
         IN  IF i = 0 THEN vs
             ELSE [vs EXCEPT !.solana_version = Some(COMPATIBILITY_RULES[i][1]),
                             !.rust_version = Some(COMPATIBILITY_RULES[i][3])]
    ELSE vs

\* the two matching branches
MatchRules(vs) ==
    IF IsSome(vs.solana_version)
    THEN LET i == FirstRule(clean_version(Unwrap(vs.solana_version)), 1, 1)
         IN  IF i = 0 THEN vs
             ELSE [vs EXCEPT
                     !.anchor_version =
                         IF IsNone(@) THEN Some(COMPATIBILITY_RULES[i][2]) ELSE @,
                     !.rust_version =
                         IF IsNone(@) THEN Some(COMPATIBILITY_RULES[i][3]) ELSE @]
    ELSE IF IsSome(vs.anchor_version)
    THEN LET i == FirstRule(clean_version(Unwrap(vs.anchor_version)), 2, 1)
         IN  IF i = 0 THEN vs
             ELSE [vs EXCEPT
                     !.solana_version =
                         IF IsNone(@) THEN Some(COMPATIBILITY_RULES[i][1]) ELSE @,
                     !.rust_version =
                         IF IsNone(@) THEN Some(COMPATIBILITY_RULES[i][3]) ELSE @]
    ELSE vs

\* the defaults extended to the framework version
LatestDefaults_all(vs) ==
    [rust_version |->
        IF IsNone(vs.rust_version)
        THEN Some(COMPATIBILITY_RULES[LATEST_COMPATIBILITY_INDEX][3])
        ELSE vs.rust_version,
     solana_version |->
        IF IsNone(vs.solana_version) \/ Unwrap(vs.solana_version) = "*"
        THEN Some(COMPATIBILITY_RULES[LATEST_COMPATIBILITY_INDEX][1])
        ELSE vs.solana_version,
     anchor_version |->
        IF IsNone(vs.anchor_version)
        THEN Some(COMPATIBILITY_RULES[LATEST_COMPATIBILITY_INDEX][2])
        ELSE vs.anchor_version,
     source |-> vs.source]

\* "If still missing versions, use latest known compatible versions"
LatestDefaults(vs) ==
    LET v1 == IF IsNone(vs.solana_version) \/ Unwrap(vs.solana_version) = "*"
              THEN [vs EXCEPT !.solana_version =
                       Some(COMPATIBILITY_RULES[LATEST_COMPATIBILITY_INDEX][1])]
              ELSE vs
    IN  IF IsNone(v1.rust_version)
        THEN [v1 EXCEPT !.rust_version =
                 Some(COMPATIBILITY_RULES[LATEST_COMPATIBILITY_INDEX][3])]
        ELSE v1

infer_missing_versions(vs) ==
    IF ~is_solana_project(vs) THEN Err(NotSolanaProject)
    ELSE Ok(LatestDefaults(MatchRules(vs)))

----------------------------------------------------------------------------
(* The project trees the model is run on.                                  *)

MaxDirs == 3            \* directories of a project tree, the root included

SmallSize == 64         \* byte length of an ordinary manifest

\* longest version string of the exhaustive family of cleaning inputs
MaxVersionLen == 4

\* a directory: how fs::read_dir fares on it ("ok", "open_error",
\* "entry_error") and its four manifest files
Content(listing, tc1, tc2, anchor, cargo) ==
    [listing |-> listing, toolchain |-> <<tc1, tc2>>,
     anchor_toml |-> anchor, cargo_toml |-> cargo]

Dir(parent, name, c) ==
    [parent |-> parent, name |-> name, listing |-> c.listing,
     toolchain |-> c.toolchain, anchor_toml |-> c.anchor_toml,
     cargo_toml |-> c.cargo_toml]

Plain(doc) == File(TRUE, SmallSize, doc)

CargoWith(sp, al, as) == Plain(CargoDoc(Deps(sp, al, as), "absent", NoDeps))

EmptyDir == Content("ok", NoToolchainFile, NoToolchainFile, NoAnchorToml, NoCargoToml)

ToolchainOnly ==
    Content("ok", Plain(ToolchainText("1.69.0\n")), NoToolchainFile,
            NoAnchorToml, NoCargoToml)

PlatformOnly ==
    Content("ok", NoToolchainFile, NoToolchainFile, NoAnchorToml,
            CargoWith(DString("1.17.0"), DAbsent, DAbsent))

FrameworkOnly ==
    Content("ok", NoToolchainFile, NoToolchainFile, NoAnchorToml,
            CargoWith(DAbsent, DString("^0.29.0"), DAbsent))

FullSet ==
    Content("ok", NoToolchainFile, Plain(ToolchainToml("1.76.0")),
            Plain(AnchorDoc(TString("1.18.17"), TString("0.30.1"))), NoCargoToml)

WildcardPlatform ==
    Content("ok", NoToolchainFile, NoToolchainFile, NoAnchorToml,
            CargoWith(DString("*"), DAbsent, DAbsent))

\* every manifest there and none parses; Cargo.toml is TOML of another project
Unparseable ==
    Content("ok", Plain(ToolchainText("stable\n")), NoToolchainFile,
            Plain(AnchorNotToml), CargoWith(DAbsent, DAbsent, DAbsent))

OversizedCargo ==
    Content("ok", NoToolchainFile, NoToolchainFile, NoAnchorToml,
            File(TRUE, MAX_TOML_FILE_SIZE + 1,
                 CargoDoc(Deps(DString("1.16.0"), DString("0.28.0"), DAbsent),
                          "absent", NoDeps)))

UnreadableAnchor ==
    Content("ok", Plain(ToolchainText("1.68.0")), NoToolchainFile,
            File(FALSE, SmallSize, AnchorDoc(TString("1.16.0"), TString("0.28.0"))),
            NoCargoToml)

Unlistable == [FrameworkOnly EXCEPT !.listing = "open_error"]
BrokenListing == [ToolchainOnly EXCEPT !.listing = "entry_error"]

FactContents ==
    {EmptyDir, ToolchainOnly, PlatformOnly, FrameworkOnly, FullSet, WildcardPlatform}
FaultContents ==
    {Unparseable, OversizedCargo, UnreadableAnchor, Unlistable, BrokenListing}

\* name and content of a subdirectory
SubdirChoices ==
    [name : {"programs"}, content : FactContents \cup FaultContents]
    \cup [name : {"node_modules", "target"}, content : {FullSet}]

RootChoices ==
    [name : {"project"}, content : FactContents \cup FaultContents]
    \cup [name : {"build"}, content : {FullSet}]

ParentVectors(n) ==
    {p \in [1..n -> 0..n] : p[1] = 0 /\ \A i \in 2..n : p[i] \in 1..(i - 1)}

\* names off the deny list, one for each directory: the entries of one
\* directory bear different names
PlainNames == <<"project", "programs", "tests", "app", "migrations", "scripts">>

\* a tree of up to MaxDirs directories: every directory but the root has an
\* earlier directory as its parent
WalkProject(t) ==
    \E n \in 1..MaxDirs :
      \E p \in ParentVectors(n), r \in RootChoices, c \in [2..n -> SubdirChoices] :
        /\ t = [i \in 1..n |->
                  IF i = 1 THEN Dir(0, r.name, r.content)
                  ELSE Dir(p[i],
                           IF c[i].name = "programs" THEN PlainNames[i]
                           ELSE c[i].name,
                           c[i].content)]
        /\ \A i, j \in 2..n :
              (i # j /\ p[i] = p[j]) => t[i].name # t[j].name

\* a root with one subdirectory under each of the deny-listed names (and, to
\* compare, under names that are not on the list)
DenyProject(t) ==
    \E r \in RootChoices,
       name \in SKIP_DIRECTORIES \cup {"programs", "Target", "builds"},
       c \in {FullSet, OversizedCargo, UnreadableAnchor} :
        t = <<Dir(0, r.name, r.content), Dir(1, name, c)>>

\* one directory, its manifests taken from these sets ------------------------

ToolchainFiles ==
    {NoToolchainFile,
     Plain(ToolchainText("1.69.0\n")),
     Plain(ToolchainText("stable\n")),
     Plain(ToolchainText("  nightly-2023-04-01\n")),
     Plain(ToolchainToml("1.76.0")),
     Plain(ToolchainToml("")),
     File(FALSE, SmallSize, ToolchainToml("1.76.0")),
     File(TRUE, MAX_RUST_TOOLCHAIN_FILE_SIZE, ToolchainToml("1.76.0")),
     File(TRUE, MAX_RUST_TOOLCHAIN_FILE_SIZE + 1, ToolchainToml("1.76.0"))}

SecondToolchainFiles ==
    {NoToolchainFile,
     Plain(ToolchainToml("1.84.1")),
     Plain(ToolchainText("beta\n")),
     File(FALSE, SmallSize, ToolchainToml("1.84.1")),
     File(TRUE, MAX_RUST_TOOLCHAIN_FILE_SIZE + 1, ToolchainToml("1.84.1"))}

AnchorDocs ==
    {AnchorNotToml, AnchorNoToolchain, AnchorBadToolchain}
    \cup {AnchorDoc(sv, av) :
            sv \in {TAbsent, TString("1.18.17"), TString("*"), TOther},
            av \in {TAbsent, TString("0.30.1"), TString(""), TOther}}

AnchorFiles ==
    {NoAnchorToml,
     File(FALSE, SmallSize, AnchorDoc(TString("1.18.17"), TString("0.30.1"))),
     File(TRUE, MAX_TOML_FILE_SIZE, AnchorDoc(TString("1.18.17"), TString("0.30.1"))),
     File(TRUE, MAX_TOML_FILE_SIZE + 1, AnchorDoc(TString("1.18.17"), TString("0.30.1")))}
    \cup {Plain(d) : d \in AnchorDocs}

DependencyTables ==
    {NoDeps, BadDeps}
    \cup {Deps(sp, al, as) :
            sp \in {DAbsent, DString("1.17.0"), DTable(TString("=1.16.0"))},
            al \in {DAbsent, DString("0.29.0"), DTable(TAbsent), DTable(TOther)},
            as \in {DAbsent, DString("0.28.0")}}

WorkspaceTables ==
    {Deps(DString("2.1.0"), DString("0.31.0"), DAbsent),
     Deps(DString(""), DAbsent, DString("0.27.0"))}

CargoDocs ==
    {CargoNotToml}
    \cup {CargoDoc(d, w, NoDeps) : d \in DependencyTables, w \in {"absent", "other"}}
    \cup {CargoDoc(d, "table", wd) : d \in DependencyTables, wd \in WorkspaceTables}

CargoFiles ==
    {NoCargoToml,
     File(FALSE, SmallSize, CargoDoc(NoDeps, "absent", NoDeps)),
     File(TRUE, MAX_TOML_FILE_SIZE, CargoDoc(NoDeps, "absent", NoDeps)),
     File(TRUE, MAX_TOML_FILE_SIZE + 1, CargoDoc(NoDeps, "absent", NoDeps))}
    \cup {Plain(d) : d \in CargoDocs}

Single(c) == <<Dir(0, "project", c)>>

\* the toolchain-pin files in full, beside a few other manifests
ToolchainProject(t) ==
    \E tc1 \in ToolchainFiles, tc2 \in SecondToolchainFiles,
       a \in {NoAnchorToml, FullSet.anchor_toml, UnreadableAnchor.anchor_toml},
       c \in {NoCargoToml, PlatformOnly.cargo_toml} :
        t = Single(Content("ok", tc1, tc2, a, c))

\* Anchor.toml and Cargo.toml in full, with and without a toolchain pin
ManifestProject(t) ==
    \E tc2 \in {NoToolchainFile, Plain(ToolchainToml("1.84.1"))},
       a \in AnchorFiles, c \in CargoFiles :
        t = Single(Content("ok", NoToolchainFile, tc2, a, c))

\* version strings as inference meets them
SolanaInputs ==
    {"1.18.17", "^1.18.17", "~1.18.17", "=1.18.17", "v1.18.17",
     "^^1.18.17", "~^1.18.17", "vv1.18.17", "^v1.18.17", "v^1.18.17",
     "^~=v1.18.17", "=~1.18.17", "^^vv1.18.17",
     "1.18.8", "1.18.170", "=2.1.5", "1.18", "3.0.0", "1.14.0", "*", ""}

AnchorInputs ==
    {"0.30.1", "^0.29.0", "~0.31.0", "v0.28.0", "0.30.10", "0.30", "0.1.0", "=0.26.0", ""}

InferProject(t) ==
    \E sv \in {TAbsent} \cup {TString(x) : x \in SolanaInputs},
       av \in {TAbsent} \cup {TString(x) : x \in AnchorInputs},
       tc1 \in {NoToolchainFile, Plain(ToolchainText("1.70.0"))} :
        t = Single(Content("ok", tc1, NoToolchainFile, Plain(AnchorDoc(sv, av)),
                           NoCargoToml))

\* the characters version cleaning tells apart, and one it does not
CleanAlphabet == {"^", "~", "=", "v", "1"}

RECURSIVE VersionStrings(_)
VersionStrings(n) ==
    IF n = 0 THEN {""}
    ELSE {c \o s : c \in CleanAlphabet, s \in VersionStrings(n - 1)}

\* every string over CleanAlphabet of up to MaxVersionLen characters, as the
\* solana_version or the anchor_version of a root Anchor.toml
CleanProject(t) ==
    \E n \in 1..MaxVersionLen :
      \E x \in VersionStrings(n), solana \in BOOLEAN :
        t = Single(Content("ok", NoToolchainFile, NoToolchainFile,
                           Plain(IF solana THEN AnchorDoc(TString(x), TAbsent)
                                 ELSE AnchorDoc(TAbsent, TString(x))),
                           NoCargoToml))

Project(t) ==
    \/ WalkProject(t)
    \/ DenyProject(t)
    \/ ToolchainProject(t)
    \/ ManifestProject(t)
    \/ InferProject(t)
    \/ CleanProject(t)

Children(t, d) == {c \in 1..Len(t) : t[c].parent = d}

----------------------------------------------------------------------------
(* detect_versions_recursive, step by step.                                *)

Init ==
    /\ Project(tree)
    /\ pc = "detect_root"
    /\ stack = <<>>
    /\ versions = EmptyVersions
    /\ returned = <<>>
    /\ probed = <<>>
    /\ reads = {}

Top == stack[Len(stack)]
Pop == SubSeq(stack, 1, Len(stack) - 1)
Frame(d, entries) == [dir |-> d, entries |-> entries]

\* a `?` that fires: the error goes up through every caller to main
Fail(e) ==
    /\ returned' = <<Err(e)>>
    /\ pc' = "done"
    /\ stack' = <<>>

\* let mut versions = detect_versions(project_path)?;
\* if versions.needs_more_info() { search_subdirectories(..)? }
DetectRoot ==
    /\ pc = "detect_root"
    /\ LET r == detect_versions(1, tree[1])
       IN  /\ probed' = Append(probed, 1)
           /\ reads' = reads \cup FilesRead(1, tree[1])
           /\ IF ~r.ok
              THEN Fail(r.err) /\ UNCHANGED versions
              ELSE /\ versions' = r.v
                   /\ returned' = returned
                   /\ IF needs_more_info(r.v)
                      THEN pc' = "read_dir" /\ stack' = <<Frame(1, {})>>
                      ELSE pc' = "infer" /\ stack' = <<>>
    /\ UNCHANGED tree

\* let entries = fs::read_dir(dir)?;
ReadDir ==
    /\ pc = "read_dir"
    /\ IF tree[Top.dir].listing = "open_error"
       THEN Fail(IoError)
       ELSE /\ stack' = [stack EXCEPT ![Len(stack)].entries = Children(tree, Top.dir)]
            /\ pc' = "loop"
            /\ returned' = returned
    /\ UNCHANGED <<tree, versions, probed, reads>>

\* let entry = entry.map_err(..)?  on an entry the iterator fails on
EntryError ==
    /\ pc = "loop"
    /\ tree[Top.dir].listing = "entry_error"
    /\ Fail(IoError)
    /\ UNCHANGED <<tree, versions, probed, reads>>

\* if should_skip_directory(dir_name) { continue; }
\* (the entries that are no directories are passed over the same way)
SkipEntry ==
    /\ pc = "loop"
    /\ \E e \in Top.entries :
          /\ should_skip_directory(tree[e].name)
          /\ stack' = [stack EXCEPT ![Len(stack)].entries = @ \ {e}]
    /\ UNCHANGED <<tree, pc, versions, returned, probed, reads>>

\* let sub_versions = detect_versions(&path)?; versions.update_from(..);
\* if versions.needs_more_info() { search_subdirectories(&path, versions)? }
ProbeEntry ==
    /\ pc = "loop"
    /\ \E e \in Top.entries :
          /\ ~should_skip_directory(tree[e].name)
          /\ LET sub_versions == detect_versions(e, tree[e])
                 merged == update_from(versions, sub_versions.v)
                 rest == [stack EXCEPT ![Len(stack)].entries = @ \ {e}]
             IN  /\ probed' = Append(probed, e)
                 /\ reads' = reads \cup FilesRead(e, tree[e])
                 /\ IF ~sub_versions.ok
                    THEN Fail(sub_versions.err) /\ UNCHANGED versions
                    ELSE /\ versions' = merged
                         /\ returned' = returned
                         /\ IF needs_more_info(merged)
                            THEN /\ pc' = "read_dir"
                                 /\ stack' = Append(rest, Frame(e, {}))
                            ELSE /\ pc' = "check"
                                 /\ stack' = rest
    /\ UNCHANGED tree

\* a loop that goes on to the next entry whatever the running result holds
CheckDone_no_break ==
    /\ pc = "check"
    /\ pc' = "loop"
    /\ UNCHANGED <<tree, stack, versions, returned, probed, reads>>

\* after the entry (and its subtree): if !versions.needs_more_info() { break; }
\* and, out of the loop, Ok(()) back to the caller
CheckDone ==
    /\ pc = "check"
    /\ IF needs_more_info(versions)
       THEN pc' = "loop" /\ stack' = stack
       ELSE /\ stack' = Pop
            /\ pc' = IF Len(stack) = 1 THEN "infer" ELSE "check"
    /\ UNCHANGED <<tree, versions, returned, probed, reads>>

\* the directory's entries are exhausted: Ok(())
LoopEnd ==
    /\ pc = "loop"
    /\ Top.entries = {}
    /\ tree[Top.dir].listing = "ok"
    /\ stack' = Pop
    /\ pc' = IF Len(stack) = 1 THEN "infer" ELSE "check"
    /\ UNCHANGED <<tree, versions, returned, probed, reads>>

\* infer_missing_versions(&mut versions)?; Ok(versions)
Infer ==
    /\ pc = "infer"
    /\ LET r == infer_missing_versions(versions)
       IN  /\ returned' = <<r>>
           /\ versions' = IF r.ok THEN r.v ELSE versions
    /\ pc' = "done"
    /\ UNCHANGED <<tree, stack, probed, reads>>

Next ==
    \/ DetectRoot
    \/ ReadDir
    \/ EntryError
    \/ SkipEntry
    \/ ProbeEntry
    \/ CheckDone
    \/ LoopEnd
    \/ Infer

Spec == Init /\ [][Next]_vars

----------------------------------------------------------------------------
(* Properties.                                                             *)

\* what the probe of the i-th probed directory returned
ProbeResult(i) == detect_versions(probed[i], tree[probed[i]])

Done == pc = "done"
Succeeded == Done /\ returned[1].ok
FailedWith(e) == Done /\ returned = <<Err(e)>>

\* the step taken is the inference, and it succeeded
InferStep == pc = "infer" /\ pc' = "done" /\ returned'[1].ok

\* rows whose key in the column is a prefix of the cleaned version
MatchingRows(version, column) ==
    {i \in 1..Len(COMPATIBILITY_RULES) :
        StartsWith(clean_version(version), COMPATIBILITY_RULES[i][column])}
Least(S) == CHOOSE i \in S : \A j \in S : i <= j

\* C1: during the walk (every step before the inference) a field of the
\* running result that is set keeps its value, whatever the directory
\* probed in the step reports.
C1_SetFieldsAreKept ==
    [][pc # "infer" =>
        /\ IsSome(versions.rust_version) =>
              versions'.rust_version = versions.rust_version
        /\ IsSome(versions.solana_version) =>
              versions'.solana_version = versions.solana_version
        /\ IsSome(versions.anchor_version) =>
              versions'.anchor_version = versions.anchor_version]_vars

\* a subdirectory was merged whose toolchain and platform facts both
\* disagree with the running result
C1_Witness ==
    /\ Len(probed) >= 3
    /\ LET sub == ProbeResult(Len(probed))
       IN  /\ sub.ok
           /\ IsSome(sub.v.rust_version)
           /\ IsSome(sub.v.solana_version)
           /\ IsSome(versions.rust_version)
           /\ IsSome(versions.solana_version)
           /\ sub.v.rust_version # versions.rust_version
           /\ sub.v.solana_version # versions.solana_version

\* C2: when some row's key is a prefix of the cleaned detected version (the
\* platform column if platform_version is set, else the framework column),
\* the fields that were unset are filled from the first such row and the
\* fields that were set are kept; platform "1.18.17" alone, bare or behind
\* one ^, ~, = or v, gives framework "0.30.1" and toolchain "1.76.0".
C2_FirstMatchingRowFills ==
    [][InferStep =>
        LET pre == versions
            post == versions'
            column == IF IsSome(pre.solana_version) THEN 1 ELSE 2
            key == IF column = 1 THEN Unwrap(pre.solana_version)
                   ELSE Unwrap(pre.anchor_version)
            rows == MatchingRows(key, column)
            row == COMPATIBILITY_RULES[Least(rows)]
        IN  /\ rows # {} =>
                /\ post.solana_version =
                      IF IsNone(pre.solana_version) THEN Some(row[1])
                      ELSE pre.solana_version
                /\ post.anchor_version =
                      IF IsNone(pre.anchor_version) THEN Some(row[2])
                      ELSE pre.anchor_version
                /\ post.rust_version =
                      IF IsNone(pre.rust_version) THEN Some(row[3])
                      ELSE pre.rust_version
            /\ ( /\ pre.solana_version \in
                       {Some("1.18.17"), Some("^1.18.17"), Some("~1.18.17"),
                        Some("=1.18.17"), Some("v1.18.17")}
                 /\ IsNone(pre.anchor_version)
                 /\ IsNone(pre.rust_version) )
               => /\ post.anchor_version = Some("0.30.1")
                  /\ post.rust_version = Some("1.76.0")
                  /\ post.solana_version = pre.solana_version]_vars

\* only platform "~1.18.17" was detected, and the inference filled the rest
C2_Witness ==
    /\ Succeeded
    /\ Len(probed) = 1
    /\ ProbeResult(1).v =
          [EmptyVersions EXCEPT !.solana_version = Some("~1.18.17")]
    /\ versions.anchor_version = Some("0.30.1")
    /\ versions.rust_version = Some("1.76.0")

\* no probe that was made returned a platform or a framework version
NoIndicatorProbed ==
    \A i \in 1..Len(probed) :
        /\ IsNone(ProbeResult(i).v.solana_version)
        /\ IsNone(ProbeResult(i).v.anchor_version)

\* a probed directory with a file the probe could not take in, or whose
\* listing fails
FaultProbed ==
    \E i \in 1..Len(probed) :
        \/ ~ProbeResult(i).ok
        \/ tree[probed[i]].listing # "ok"

\* C3 as stated: detection over a tree in which no probed directory yields
\* a platform or framework version ends with the not-a-recognized-project
\* error.
C3_AlwaysNotAProject ==
    (Done /\ NoIndicatorProbed) => returned = <<Err(NotSolanaProject)>>

\* C3 as amended: such a detection never succeeds and returns no facts; its
\* error is the not-a-recognized-project error, unless an unreadable or
\* oversized file or an unreadable directory ended the walk first, and then
\* it is that error.
C3_NeverSucceedsWithoutIndicator ==
    (Done /\ NoIndicatorProbed) =>
        /\ ~returned[1].ok
        /\ returned[1].v = EmptyVersions
        /\ IF FaultProbed
           THEN returned[1].err \in {IoError, TooLarge}
           ELSE returned[1].err = NotSolanaProject

\* two directories were probed, a toolchain version was found, and the
\* detection ended with the not-a-recognized-project error
C3_Witness ==
    /\ FailedWith(NotSolanaProject)
    /\ NoIndicatorProbed
    /\ Len(probed) >= 2
    /\ IsSome(versions.rust_version)

\* the eight names of the deny-list, as the specification lists them
DenyListed ==
    {"node_modules", "target", ".git", "dist", "build", ".idea", ".vscode", "coverage"}

\* d is a deny-listed subdirectory or lies below one
RECURSIVE InDeniedSubtree(_)
InDeniedSubtree(d) ==
    /\ d # 1
    /\ \/ tree[d].name \in DenyListed
       \/ InDeniedSubtree(tree[d].parent)

\* C4: no directory in a deny-listed subtree is probed, listed or read from,
\* at any depth; and when the directories outside such subtrees hold no
\* facts (and no fault), detection ends with the not-a-recognized-project
\* error whatever the deny-listed subtrees hold.
C4_DenyListedNeverEntered ==
    /\ \A i \in 1..Len(probed) : ~InDeniedSubtree(probed[i])
    /\ \A i \in 1..Len(stack) : ~InDeniedSubtree(stack[i].dir)
    /\ \A r \in reads : ~InDeniedSubtree(r[1])
    /\ ( /\ Done
         /\ \A d \in 1..Len(tree) :
               ~InDeniedSubtree(d) =>
                   /\ detect_versions(d, tree[d]) = Ok(EmptyVersions)
                   /\ tree[d].listing = "ok" )
       => returned = <<Err(NotSolanaProject)>>

\* the root holds nothing, its subdirectory "coverage" holds all three facts,
\* and the detection has ended with the not-a-recognized-project error
C4_Witness ==
    /\ FailedWith(NotSolanaProject)
    /\ \E d \in 2..Len(tree) :
          /\ tree[d].name = "coverage"
          /\ detect_versions(d, tree[d]).ok
          /\ ~needs_more_info(detect_versions(d, tree[d]).v)

\* C5: a successful inference leaves platform_version set and not "*" and
\* toolchain_version set: the detected value, else the value of the matched
\* row, else that of the first row.  framework_version is the detected
\* value, else that of the row matched on the platform column, else unset.
C5_DefaultsNeverReachFramework ==
    [][InferStep =>
        LET pre == versions
            post == versions'
            first == COMPATIBILITY_RULES[1]
            platformRows ==
                IF IsSome(pre.solana_version)
                THEN MatchingRows(Unwrap(pre.solana_version), 1) ELSE {}
            frameworkRows ==
                IF IsNone(pre.solana_version) /\ IsSome(pre.anchor_version)
                THEN MatchingRows(Unwrap(pre.anchor_version), 2) ELSE {}
            rows == platformRows \cup frameworkRows
        IN  /\ IsSome(post.solana_version)
            /\ post.solana_version # Some("*")
            /\ IsSome(post.rust_version)
            /\ post.solana_version =
                  IF IsSome(pre.solana_version) /\ pre.solana_version # Some("*")
                  THEN pre.solana_version
                  ELSE IF frameworkRows # {}
                  THEN Some(COMPATIBILITY_RULES[Least(frameworkRows)][1])
                  ELSE Some(first[1])
            /\ post.rust_version =
                  IF IsSome(pre.rust_version) THEN pre.rust_version
                  ELSE IF rows # {} THEN Some(COMPATIBILITY_RULES[Least(rows)][3])
                  ELSE Some(first[3])
            /\ post.anchor_version =
                  IF IsSome(pre.anchor_version) THEN pre.anchor_version
                  ELSE IF platformRows # {}
                  THEN Some(COMPATIBILITY_RULES[Least(platformRows)][2])
                  ELSE None]_vars

\* the inference succeeded on a platform version no row matches: toolchain
\* from the first row, framework left unset
C5_Witness ==
    /\ Succeeded
    /\ versions.solana_version = Some("3.0.0")
    /\ versions.rust_version = Some("1.84.1")
    /\ IsNone(versions.anchor_version)

\* the step probes a subdirectory, and its probe reports platform "*"
WildcardProbeStep ==
    /\ Len(probed) >= 1
    /\ Len(probed') = Len(probed) + 1
    /\ LET sub == detect_versions(probed'[Len(probed')], tree[probed'[Len(probed')]])
       IN  sub.ok /\ sub.v.solana_version = Some("*")

\* C6: merging a subdirectory probe whose platform_version is "*" leaves
\* the running platform_version as it was (unset stays unset), and the walk
\* goes on looking: it descends into the subdirectory for more.
C6_WildcardIsNotMerged ==
    [][WildcardProbeStep =>
        /\ versions'.solana_version = versions.solana_version
        /\ IsNone(versions.solana_version) =>
              /\ needs_more_info(versions')
              /\ pc' = "read_dir"
              /\ Len(stack') = Len(stack) + 1]_vars

\* a subdirectory reported "*", and a directory probed after it supplied
\* the platform version the running result holds
C6_Witness ==
    \E i \in 2..Len(probed) : \E j \in (i + 1)..Len(probed) :
        /\ ProbeResult(i).v.solana_version = Some("*")
        /\ IsSome(ProbeResult(j).v.solana_version)
        /\ ProbeResult(j).v.solana_version = versions.solana_version
        /\ versions.solana_version # Some("*")

\* C7 as stated: a platform version "*" is no information wherever it is
\* found: the running facts never count as complete while they hold it,
\* and a detection whose probes found no framework version and no platform
\* version but "*" ends as it does without the "*": with an error.
C7_WildcardIsNoInformation ==
    /\ versions.solana_version = Some("*") => needs_more_info(versions)
    /\ ( /\ Done
         /\ \A i \in 1..Len(probed) :
               /\ ProbeResult(i).v.solana_version \in {None, Some("*")}
               /\ IsNone(ProbeResult(i).v.anchor_version) )
       => ~returned[1].ok

\* the manifest file names of a directory, and the file under each
ManifestNames == {"rust-toolchain", "rust-toolchain.toml", "Anchor.toml", "Cargo.toml"}
FileNamed(dir, name) ==
    CASE name = "rust-toolchain" -> dir.toolchain[1]
      [] name = "rust-toolchain.toml" -> dir.toolchain[2]
      [] name = "Anchor.toml" -> dir.anchor_toml
      [] name = "Cargo.toml" -> dir.cargo_toml
SizeCap(name) ==
    IF name \in {"Anchor.toml", "Cargo.toml"} THEN 100000 ELSE 10000

\* the file cannot be taken in: unreadable, or larger than its cap
Faulty(dir, name) ==
    /\ FileNamed(dir, name).exists
    /\ \/ ~FileNamed(dir, name).readable
       \/ FileNamed(dir, name).size > SizeCap(name)

\* the file was read and its structured parse failed
FormatError(d, name) ==
    /\ <<d, name>> \in reads
    /\ ~Faulty(tree[d], name)
    /\ CASE name = "Anchor.toml" -> ~AnchorTomlParses(tree[d].anchor_toml.doc)
         [] name = "Cargo.toml" -> ~CargoTomlParses(tree[d].cargo_toml.doc)
         [] OTHER -> ~parse_rust_toolchain(FileNamed(tree[d], name).doc).ok

\* the directory without the file, or without both toolchain-pin files
Without(dir, name) ==
    CASE name = "Anchor.toml" -> [dir EXCEPT !.anchor_toml = NoAnchorToml]
      [] name = "Cargo.toml" -> [dir EXCEPT !.cargo_toml = NoCargoToml]
      [] OTHER -> [dir EXCEPT !.toolchain = <<NoToolchainFile, NoToolchainFile>>]

\* the file is no TOML at all (for a toolchain pin: no version either)
IsUnparseable(dir, name) ==
    CASE name = "Anchor.toml" -> ~dir.anchor_toml.doc.valid
      [] name = "Cargo.toml" -> ~dir.cargo_toml.doc.valid
      [] OTHER -> ~parse_rust_toolchain(FileNamed(dir, name).doc).ok

\* a probe fails only on a file it read and could not take in
ProbeFailsOnFaultOnly(i) ==
    ~ProbeResult(i).ok =>
        \E name \in ManifestNames :
            <<probed[i], name>> \in reads /\ Faulty(tree[probed[i]], name)

\* C8 as stated: a format error is never a failure of the probe, and after
\* one every other manifest file that exists in the directory (and can be
\* taken in) has been read.
C8_FormatErrorHidesNoFile ==
    \A i \in 1..Len(probed) :
        /\ ProbeFailsOnFaultOnly(i)
        /\ ( /\ ProbeResult(i).ok
             /\ \E name \in ManifestNames : FormatError(probed[i], name) )
           => \A name \in ManifestNames :
                  ( /\ FileNamed(tree[probed[i]], name).exists
                    /\ ~Faulty(tree[probed[i]], name) )
                  => <<probed[i], name>> \in reads

\* C8 as amended: a format error is never a failure of the probe; after one,
\* Anchor.toml and Cargo.toml have been read if they exist, and of the two
\* toolchain-pin names only the first that exists (rust-toolchain.toml is
\* read only when rust-toolchain does not exist, parseable or not); and a
\* file that is unparseable changes the probe's result in nothing but the
\* fields it leaves unset: the result is that of the directory without it.
C8_FormatErrorIsLocal ==
    \A i \in 1..Len(probed) :
        LET d == probed[i]
            dir == tree[d]
        IN  /\ ProbeFailsOnFaultOnly(i)
            /\ ( /\ ProbeResult(i).ok
                 /\ \E name \in ManifestNames : FormatError(d, name) )
               => /\ \A name \in {"Anchor.toml", "Cargo.toml"} :
                        FileNamed(dir, name).exists => <<d, name>> \in reads
                  /\ dir.toolchain[1].exists =>
                        /\ <<d, "rust-toolchain">> \in reads
                        /\ <<d, "rust-toolchain.toml">> \notin reads
                  /\ (~dir.toolchain[1].exists /\ dir.toolchain[2].exists) =>
                        <<d, "rust-toolchain.toml">> \in reads
                  /\ \A name \in ManifestNames :
                        (FormatError(d, name) /\ IsUnparseable(dir, name)) =>
                            ProbeResult(i) = detect_versions(d, Without(dir, name))

\* a directory whose toolchain pin and Anchor.toml both fail to parse was
\* probed, its Cargo.toml was read all the same, and a
\* directory probed after it supplied the framework version
C8_Witness ==
    /\ Len(probed) >= 2
    /\ FormatError(probed[1], "rust-toolchain")
    /\ FormatError(probed[1], "Anchor.toml")
    /\ <<probed[1], "Cargo.toml">> \in reads
    /\ IsSome(versions.anchor_version)
    /\ ProbeResult(Len(probed)).v.anchor_version = versions.anchor_version

\* C9 as stated: a probed directory that holds a manifest file the program
\* cannot take in ends the detection there and then with an error.
C9_AnyFaultyFileAborts ==
    \A i \in 1..Len(probed) :
        (\E name \in ManifestNames : Faulty(tree[probed[i]], name)) =>
            /\ Done
            /\ ~returned[1].ok
            /\ i = Len(probed)

\* the files of a directory the probe turns to: the first toolchain-pin name
\* that exists, Anchor.toml and Cargo.toml
ProbedNames(dir) ==
    {"Anchor.toml", "Cargo.toml"}
    \cup (IF dir.toolchain[1].exists THEN {"rust-toolchain"}
          ELSE {"rust-toolchain.toml"})

\* C9 as amended: a probed directory that holds a faulty file among those
\* the probe turns to (rust-toolchain.toml is left alone when rust-toolchain
\* exists) ends the detection at that probe with the I/O or oversize error
\* and no facts, and no directory is probed after it; a directory whose
\* listing cannot be opened does the same at its read_dir, and a listing
\* that breaks off is left, while facts are missing, by the error only.
C9_FaultyFileAborts ==
    /\ [](\A i \in 1..Len(probed) :
            (\E name \in ProbedNames(tree[probed[i]]) :
                    Faulty(tree[probed[i]], name)) =>
                /\ Done
                /\ returned \in {<<Err(IoError)>>, <<Err(TooLarge)>>}
                /\ i = Len(probed))
    /\ [][/\ (pc = "read_dir" /\ tree[Top.dir].listing = "open_error") =>
                /\ pc' = "done"
                /\ returned' = <<Err(IoError)>>
                /\ probed' = probed
                /\ reads' = reads
          /\ ( /\ pc = "loop"
               /\ tree[Top.dir].listing = "entry_error"
               /\ Len(stack') < Len(stack)
               /\ needs_more_info(versions') ) =>
                /\ pc' = "done"
                /\ returned' \in {<<Err(IoError)>>, <<Err(TooLarge)>>}
          /\ pc = "done" => UNCHANGED vars]_vars

\* facts had been gathered from two directories when the probe of a third,
\* holding an oversized Cargo.toml, ended the detection
C9_Witness ==
    /\ FailedWith(TooLarge)
    /\ Len(probed) = 3
    /\ Faulty(tree[probed[3]], "Cargo.toml")
    /\ IsSome(versions.rust_version)
    /\ IsSome(versions.anchor_version)

NonEmptyIfSet(o) == IsNone(o) \/ Len(Unwrap(o)) > 0
NonEmptyFields(vs) ==
    /\ NonEmptyIfSet(vs.rust_version)
    /\ NonEmptyIfSet(vs.solana_version)
    /\ NonEmptyIfSet(vs.anchor_version)

\* C10 as stated: every version field of every probe result, of the running
\* result and of the finalized result is unset or a non-empty string.
C10_FieldsUnsetOrNonEmpty ==
    /\ NonEmptyFields(versions)
    /\ \A i \in 1..Len(probed) : NonEmptyFields(ProbeResult(i).v)
    /\ returned # <<>> => NonEmptyFields(returned[1].v)

----------------------------------------------------------------------------
(* Version cleaning.                                                       *)

\* the version strings inference cleans: the platform and the framework
\* version of the running result
CleanedFields ==
    {versions[f] : f \in {"solana_version", "anchor_version"}} \ {None}

Operators == {"^", "~", "="}

\* the characters cleaning removes, in the order of its four passes
PassOf(c) ==
    CASE c = "^" -> 1
      [] c = "~" -> 2
      [] c = "=" -> 3
      [] c = "v" -> 4
      [] OTHER -> 5

\* c is v without its first n characters
DropsFirst(v, c, n) == n <= Len(v) /\ c = SubSeq(v, n + 1, Len(v))

\* C11 as stated: cleaning removes at most one leading operator character
\* and after it at most one leading v, and keeps the rest.
C11_AtMostOneStripped ==
    \A o \in CleanedFields :
        LET v == Unwrap(o)
            c == clean_version(v)
        IN  \/ DropsFirst(v, c, 0)
            \/ DropsFirst(v, c, 1) /\ CharAt(v, 1) \in Operators \cup {"v"}
            \/ /\ DropsFirst(v, c, 2)
               /\ CharAt(v, 1) \in Operators
               /\ CharAt(v, 2) = "v"

\* C11 as amended: cleaning removes a prefix made of a run of ^, then a run
\* of ~, then a run of =, then a run of v (each run possibly empty), every
\* run as long as it can be, and keeps the rest: what is left starts with
\* no character of the last pass that removed something, nor of a later
\* pass.
C11_RunsAreStripped ==
    \A o \in CleanedFields :
        LET v == Unwrap(o)
            c == clean_version(v)
        IN  \E n \in 0..Len(v) :
                /\ DropsFirst(v, c, n)
                /\ \A i \in 1..n : PassOf(CharAt(v, i)) <= 4
                /\ \A i \in 1..(n - 1) :
                        PassOf(CharAt(v, i)) <= PassOf(CharAt(v, i + 1))
                /\ n < Len(v) =>
                        LET last == IF n = 0 THEN 1 ELSE PassOf(CharAt(v, n))
                        IN  PassOf(CharAt(v, n + 1)) \notin last..4

\* inference met a platform version with a repeated operator, cleaned both
\* characters away and so matched the row of 1.18.17
C11_Witness ==
    /\ Succeeded
    /\ returned[1].v.solana_version = Some("^^1.18.17")
    /\ returned[1].v.anchor_version = Some("0.30.1")
    /\ clean_version("^^1.18.17") = "1.18.17"

----------------------------------------------------------------------------
(* Early exit.                                                             *)

Complete(vs) == ~needs_more_info(vs)

\* the root probe succeeded and yielded all three facts
RootProbeComplete ==
    /\ Len(probed) >= 1
    /\ ProbeResult(1).ok
    /\ Complete(ProbeResult(1).v)

\* the walk is on: the root has been probed and the inference has not run
Walking == pc \in {"read_dir", "loop", "check"}

\* C12: when the root probe yields all three facts, the root is the only
\* directory ever probed and nothing is enumerated; and from the moment the
\* running facts are complete, every step up to the inference probes no
\* directory, reads no file, enumerates no directory, keeps the facts and
\* raises no error: the calls only return, and the inference is next.
C12_EarlyExit ==
    /\ [](RootProbeComplete =>
            /\ probed = <<1>>
            /\ reads \subseteq ({1} \X ManifestNames)
            /\ stack = <<>>
            /\ pc \in {"infer", "done"})
    /\ []((Walking /\ Complete(versions)) => pc = "check")
    /\ [][(Walking /\ Complete(versions)) =>
            /\ probed' = probed
            /\ reads' = reads
            /\ versions' = versions
            /\ returned' = returned
            /\ stack' = Pop
            /\ pc' \in {"check", "infer"}]_vars

\* the facts became complete in a subdirectory of the root while another
\* subdirectory of the root, not on the deny list, was still to come: it
\* was never probed, and the detection succeeded
C12_Witness ==
    /\ Succeeded
    /\ Len(probed) = 2
    /\ tree[probed[2]].parent = 1
    /\ \E y \in 1..Len(tree) :
          /\ tree[y].parent = 1
          /\ y # probed[2]
          /\ tree[y].name \notin DenyListed
          /\ \E name \in ManifestNames : FileNamed(tree[y], name).exists
          /\ \A name \in ManifestNames : <<y, name>> \notin reads

----------------------------------------------------------------------------
(* anchor-lang before anchor-spl.                                          *)

\* the running result of the probe of probed[i] when it comes to Cargo.toml
BeforeCargo(i) ==
    LET r1 == ToolchainStage(probed[i], tree[probed[i]])
    IN  IF r1.ok THEN AnchorStage(r1.v, tree[probed[i]]) ELSE r1

\* the version a dependency entry carries: the string itself, or the string
\* under "version" of a table
CarriedVersion(entry) ==
    CASE entry.t = "string" -> Some(entry.s)
      [] entry.t = "table" /\ entry.version.t = "string" -> Some(entry.version.s)
      [] OTHER -> None

\* the dependency tables of a manifest: [dependencies] and
\* [workspace.dependencies]
DependencyTablesOf(doc) ==
    {tbl \in {doc.dependencies,
              IF doc.workspace = "table" THEN doc.workspace_dependencies
              ELSE NoDeps} : tbl.kind = "table"}

\* the versions anchor-lang carries in the manifest
AnchorLangVersions(doc) ==
    {CarriedVersion(tbl.anchor_lang) : tbl \in DependencyTablesOf(doc)} \ {None}

\* C13 as stated: a Cargo.toml that is read to find the framework version
\* (Anchor.toml gave none) and in which anchor-lang carries a version, in
\* [dependencies] or in [workspace.dependencies], yields a version of
\* anchor-lang as the framework version, never that of anchor-spl.
C13_AnchorLangBeforeAnchorSpl ==
    \A i \in 1..Len(probed) :
        LET cargo == tree[probed[i]].cargo_toml
        IN  ( /\ ProbeResult(i).ok
              /\ cargo.exists
              /\ cargo.doc.valid
              /\ IsNone(BeforeCargo(i).v.anchor_version)
              /\ AnchorLangVersions(cargo.doc) # {} )
            => ProbeResult(i).v.anchor_version \in AnchorLangVersions(cargo.doc)

=============================================================================
